---- MODULE Spec2Model ----
(***************************************************************************)
(* Structural interning of Records and Tuples (cutting_room/record-tuple). *)
(*                                                                         *)
(* Strings are sequences of UTF-16 code units, so that the comparisons of  *)
(* the sort in createRecordFromObject are computed, not assumed.           *)
(* A trie node is identified by its path from the root of its kind.        *)
(***************************************************************************)
EXTENDS Integers, Naturals, Sequences, FiniteSets, TLC

\* ------------------------------------------------------------------ bounds
\* number of composites the host ever allocates
MaxObjs == 2
\* the same, for the runs that nest records in records
MaxNested == 4
\* number of fields of a source object / arguments of a Tuple call
MaxLen == 2
\* number of watchers ever created on the ref
MaxWatchers == 2
\* number of timeouts waiting in the event loop
MaxTimers == 2
\* number of times the body of a looped function returns recur
MaxRecur == 3
\* largest max_iter handed to loop
MaxIter == 2
\* number of clauses handed to n_ary, their largest declared arity, and the
\* largest number of arguments of a call
MaxClauses == 2
MaxArity == 2
MaxArgs == 3
\* number of times the function wrapped by once is ever run
MaxRuns == 3
\* the number of functions of a pipeline
MaxStages == 2
\* the threads that call get_or_create in parallel
MaxThreads == 2
\* the method and delete_method calls made on the multimethod
MaxRegistrations == 3
\* the length of the source of a seq, and the iterations over the seq
MaxSource == 2
MaxIterations == 2

\* ----------------------------------------------------------------- strings
\* "a" and "a,b": the property names of the source objects
KeyA == <<97>>
KeyAB == <<97, 44, 98>>
Keys == {KeyA, KeyAB}

\* "[record Record]", the result of Record.prototype.toString
RecordString == <<91, 114, 101, 99, 111, 114, 100, 32, 82, 101, 99, 111, 114, 100, 93>>
\* "()=>1", the source text of the function someFunction
FunctionString == <<40, 41, 61, 62, 49>>
\* "[object Object]", Object.prototype.toString of a plain host object
ObjectString == <<91, 111, 98, 106, 101, 99, 116, 32, 79, 98, 106, 101, 99, 116, 93>>

\* the string s < the string t, code unit by code unit (JS relational
\* comparison of two strings)
StrLess(s, t) ==
    \E i \in 1..(Len(s) + 1) :
        /\ i <= Len(t)
        /\ \A j \in 1..(i - 1) : s[j] = t[j]
        /\ (i = Len(s) + 1 \/ s[i] < t[i])

\* ------------------------------------------------------------------ values
\* t: "num" (n is the number), "str" (s is the text), "rec" / "tup" (n is
\* the identity of the composite), "fn", "obj" (a mutable host object),
\* "nil" (no value)
Val(t, s, n) == [t |-> t, s |-> s, n |-> n]
Num(n) == Val("num", <<>>, n)
Str(s) == Val("str", s, 0)
Ref(kind, id) == Val(kind, <<>>, id)
someFunction == Val("fn", <<>>, 0)
someMutableHostObject == Val("obj", <<>>, 0)
Nil == Val("nil", <<>>, 0)

\* the primitive values of the model: 1 and "b,1"
PrimVals == {Num(1), Str(<<98, 44, 49>>)}

\* ToString(v), as applied by Array.prototype.join to an element: a number
\* 0..9 is its digit, null and undefined are the empty string (the fields
\* of the source objects hold no Tuples)
JSToString(v) ==
    CASE v.t = "num" -> <<48 + v.n>>
      [] v.t = "str" -> v.s
      [] v.t = "rec" -> RecordString
      [] v.t = "fn"  -> FunctionString
      [] v.t = "obj" -> ObjectString
      [] v.t = "nil" -> <<>>

Entry(k, v) == [k |-> k, v |-> v]

\* an entry [name, value] converted to a string by the < of the comparator:
\* Array.prototype.toString joins the two elements with ","
EntryString(e) == e.k \o <<44>> \o JSToString(e.v)

\* the comparator handed to sort
Compare(a, b) ==
    IF StrLess(EntryString(a), EntryString(b)) THEN -1
    ELSE IF StrLess(EntryString(b), EntryString(a)) THEN 1
    ELSE 0

\* Array.prototype.sort is stable: an element goes after the elements that
\* compare equal to it
RECURSIVE Insert(_, _)
Insert(e, sorted) ==
    IF sorted = <<>> THEN <<e>>
    ELSE IF Compare(e, Head(sorted)) < 0 THEN <<e>> \o sorted
    ELSE <<Head(sorted)>> \o Insert(e, Tail(sorted))

RECURSIVE SortEntries(_)
SortEntries(es) ==
    IF es = <<>> THEN <<>>
    ELSE Insert(es[Len(es)], SortEntries(SubSeq(es, 1, Len(es) - 1)))

\* ------------------------------------------------------------------- state
VARIABLES
    features,    \* the host has weak references, freezing, stable identity
    heap,        \* the composites ever allocated, by identity
    alive,       \* the composites the host has not reclaimed
    held,        \* the composites with an external strong reference
    nodes,       \* per kind, the paths of the trie nodes
    terminal,    \* per kind, the weak terminal slot of each node that has one
    result,      \* outcome of the call of the last step, if it was one
    workload,    \* what the callers of this run do
    refs,        \* the refs: value, pending, watchers (the array, in order)
    watcherFns,  \* the function of each Watcher ever created, by identity
    timers,      \* the timeouts waiting in the event loop: the ref to ping
    events,      \* what the last step did, in order: calls, swaps, unwatches
    owed,        \* the watchers registered at a change and not called since
    setResult,   \* the result cached by the once of the setter of forward
    fnCall,      \* the last call of a wrapped function: the wrapper's inputs
    fnOut,       \* what that call returned or threw
    onceResult,  \* the variable result of the closure made by once
    runs,        \* the times the function wrapped by once was run
    engines,     \* the same graph under the other pruning policies
    threads,     \* the position of each thread inside get_or_create
    multimethod, \* the closure of multi: its Map and its not_found
    registrations, \* the method and delete_method calls made so far, in order
    underlying,  \* the iterator a seq wraps: its source and how far it is
    seqs,        \* the seqs made by create_seq: current, the once of rest
    iterations   \* the iterators made by iterate: first, rest, what they gave

graphVars == <<features, heap, alive, held, nodes, terminal, result>>
refVars == <<refs, watcherFns, timers, events, owed, setResult>>
fnVars == <<fnCall, fnOut, onceResult, runs>>
policyVars == <<engines>>
threadVars == <<threads>>
multiVars == <<multimethod, registrations>>
seqVars == <<underlying, seqs, iterations>>
vars == <<features, heap, alive, held, nodes, terminal, result, workload,
          refs, watcherFns, timers, events, owed, setResult,
          fnCall, fnOut, onceResult, runs, engines, threads,
          multimethod, registrations, underlying, seqs, iterations>>

Kinds == {"rec", "tup"}
Workloads == {"fields", "nested", "elements", "misuse", "entries"}
Ids == 1..Len(heap)

NoResult == [op |-> "none", ok |-> TRUE, id |-> 0, error |-> "none", loc |-> <<>>, val |-> Nil]
Returned(op, id) == [op |-> op, ok |-> TRUE, id |-> id, error |-> "none", loc |-> <<>>, val |-> Nil]
Thrown(op, error, loc, val) == [op |-> op, ok |-> FALSE, id |-> 0, error |-> error, loc |-> loc, val |-> val]

Valid(v) == v.t \in {"num", "str", "nil", "rec", "tup"}

\* what a caller can pass besides primitives and invalid values: the
\* composites it holds a reference to
HeldRefs(kind) == {Ref(kind, c) : c \in {d \in held : heap[d].kind = kind}}

\* no entry of c is a composite
Flat(c) == \A i \in 1..Len(heap[c].entries) : heap[c].entries[i].v.t \notin Kinds

Distinct(ks) == \A i, j \in 1..Len(ks) : i # j => ks[i] # ks[j]
Range(f) == {f[i] : i \in 1..Len(f)}

\* the own enumerable string-keyed properties of a source object, in the
\* order Object.entries enumerates them, with fields among entries
FieldLists(entries) ==
    UNION {{f \in [1..n -> entries] : Distinct([i \in 1..n |-> f[i].k])} : n \in 0..MaxLen}
Object(fields) == [obj |-> TRUE, fields |-> fields]
NotAnObject == [obj |-> FALSE, fields |-> <<>>]

\* the fields a: "b,1" and "a,b": 1, whose entries convert to the same
\* string "a,b,1"
Colliding == {Entry(KeyA, Str(<<98, 44, 49>>)), Entry(KeyAB, Num(1))}

\* the source objects and argument lists of the workloads of a run: flat
\* records, records of flat records, tuples of distinct values, and the misuse
\* of both constructors (invalid values, a non-object, later assignments)
RecordArgs ==
    CASE workload = "fields" ->
            {Object(f) : f \in FieldLists(Colliding \cup {Entry(KeyA, Num(1))})}
      [] workload = "nested" ->
            {Object(f) : f \in {g \in FieldLists(Colliding) : Len(g) = 2}}
            \cup {Object(<<Entry(KeyA, r)>>) : r \in {x \in HeldRefs("rec") : Flat(x.n)}}
      [] workload = "misuse" ->
            {Object(f) : f \in FieldLists(
                {Entry(KeyA, Num(1)), Entry(KeyA, someFunction), Entry(KeyAB, someFunction)})}
            \cup {NotAnObject}
      [] OTHER -> {}
DistinctLists(vals) ==
    UNION {{vs \in [1..n -> vals] : Distinct(vs)} : n \in 0..MaxLen}
TupleArgs ==
    CASE workload = "elements" -> DistinctLists(PrimVals)
      [] workload = "misuse" -> DistinctLists({Num(1), someMutableHostObject})
      [] OTHER -> {}

isObject(value) == value.obj

\* -------------------------------------------------------- the intern graph
Prefixes(es) == {SubSeq(es, 1, i) : i \in 0..Len(es)}
IsPrefix(p, q) == Len(p) <= Len(q) /\ SubSeq(q, 1, Len(p)) = p

\* the terminal slot of node p holds a composite the host has not reclaimed
LiveTerminal(kind, p) ==
    p \in DOMAIN terminal[kind] /\ terminal[kind][p] \in alive

\* no terminal of the subtree of p is live
DeadSubtree_ownSlot(kind, p) == ~LiveTerminal(kind, p)
DeadSubtree(kind, p) ==
    \A q \in nodes[kind] : IsPrefix(p, q) => ~LiveTerminal(kind, q)

\* the nodes a traversal along es detaches: the subtrees of the children on
\* the path that it finds dead
Detached_offPath(kind, es) == {q \in nodes[kind] : q \notin Prefixes(es)}
Detached(kind, es) ==
    {q \in nodes[kind] :
        \E p \in Prefixes(es) \ {<<>>} :
            p \in nodes[kind] /\ DeadSubtree(kind, p) /\ IsPrefix(p, q)}

Hit_ignoresExpiry(kind, es) == es \in nodes[kind] /\ es \in DOMAIN terminal[kind]
Hit(kind, es) == es \in nodes[kind] /\ LiveTerminal(kind, es)

Restrict(f, S) == [x \in S |-> f[x]]
Put(f, x, y) == [z \in DOMAIN f \cup {x} |-> IF z = x THEN y ELSE f[z]]

\* createFreshRecordFromProperties: the fields are assigned in the order of
\* properties, the object is frozen and marked (markRecord)
createFreshRecordFromProperties_unmarked(properties) ==
    [kind |-> "rec", entries |-> properties, frozen |-> TRUE, mark |-> "none"]
createFreshRecordFromProperties_unfrozen(properties) ==
    [kind |-> "rec", entries |-> properties, frozen |-> FALSE, mark |-> "rec"]
createFreshRecordFromProperties(properties) ==
    [kind |-> "rec", entries |-> properties, frozen |-> TRUE, mark |-> "rec"]
createFreshTupleFromElements(entries) ==
    [kind |-> "tup", entries |-> entries, frozen |-> TRUE, mark |-> "tup"]
Creator(kind, es) ==
    IF kind = "rec" THEN createFreshRecordFromProperties(es)
    ELSE createFreshTupleFromElements(es)

\* InternGraph.get: walk the trie along es, creating the missing nodes, and
\* return the live terminal or a fresh composite stored weakly
GraphGet_alwaysFresh(op, kind, es) ==
    LET kept == nodes[kind] \ Detached(kind, es)
        slots == Restrict(terminal[kind], DOMAIN terminal[kind] \ Detached(kind, es))
    IN  /\ Len(heap) < (IF workload = "nested" THEN MaxNested ELSE MaxObjs)
        /\ heap' = Append(heap, Creator(kind, es))
        /\ alive' = alive \cup {Len(heap) + 1}
        /\ held' = held \cup {Len(heap) + 1}
        /\ nodes' = [nodes EXCEPT ![kind] = kept \cup Prefixes(es)]
        /\ terminal' = [terminal EXCEPT ![kind] = Put(slots, es, Len(heap) + 1)]
        /\ result' = Returned(op, Len(heap) + 1)
GraphGet(op, kind, es) ==
    LET kept == nodes[kind] \ Detached(kind, es)
        slots == Restrict(terminal[kind], DOMAIN terminal[kind] \ Detached(kind, es))
    IN  IF Hit(kind, es)
        THEN /\ result' = Returned(op, terminal[kind][es])
             /\ held' = held \cup {terminal[kind][es]}
             /\ nodes' = [nodes EXCEPT ![kind] = kept \cup Prefixes(es)]
             /\ terminal' = [terminal EXCEPT ![kind] = slots]
             /\ UNCHANGED <<heap, alive>>
        ELSE /\ Len(heap) < (IF workload = "nested" THEN MaxNested ELSE MaxObjs)
             /\ heap' = Append(heap, Creator(kind, es))
             /\ alive' = alive \cup {Len(heap) + 1}
             /\ held' = held \cup {Len(heap) + 1}
             /\ nodes' = [nodes EXCEPT ![kind] = kept \cup Prefixes(es)]
             /\ terminal' = [terminal EXCEPT ![kind] = Put(slots, es, Len(heap) + 1)]
             /\ result' = Returned(op, Len(heap) + 1)

Fail(r) ==
    /\ result' = r
    /\ UNCHANGED <<heap, alive, held, nodes, terminal>>

\* the graphs of the two kinds: RECORD_GRAPH = new InternGraph(...)
RECORD_GRAPH_shared == "tup"
RECORD_GRAPH == "rec"
TUPLE_GRAPH == "tup"

\* the first position of es whose value validateProperty rejects, 0 if none
FirstInvalid_firstOnly(es) ==
    IF es # <<>> /\ ~Valid(es[1].v) THEN 1 ELSE 0
FirstInvalid(es) ==
    IF \E i \in 1..Len(es) : ~Valid(es[i].v)
    THEN CHOOSE i \in 1..Len(es) : ~Valid(es[i].v) /\ \A j \in 1..(i - 1) : Valid(es[j].v)
    ELSE 0

\* validateProperty(value) is handed the value alone
validateProperty(op, value) == Thrown(op, "InvalidEntry", <<>>, value)

\* .map(([name, value]) => [name, validateProperty(value)]) on valid values
Validated_dropValue(properties) ==
    [i \in 1..Len(properties) |-> Entry(properties[i].k, Nil)]
Validated(properties) ==
    [i \in 1..Len(properties) |-> Entry(properties[i].k, properties[i].v)]

\* ---------------------------------------------------------------- actions
\* Record(value) = createRecordFromObject(value)
createRecordFromObject_lateGuard(value) ==
    LET properties == SortEntries(value.fields)
        bad == FirstInvalid(properties)
    IN  /\ UNCHANGED <<features, workload>>
        /\ IF ~isObject(value) THEN Fail(Thrown("Record", "Error", <<>>, Nil))
           ELSE IF bad # 0 THEN Fail(validateProperty("Record", properties[bad].v))
           ELSE IF ~features
                THEN /\ result' = Thrown("Record", "CapabilityMissing", <<>>, Nil)
                     /\ nodes' = [nodes EXCEPT ![RECORD_GRAPH] = @ \cup Prefixes(properties)]
                     /\ UNCHANGED <<heap, alive, held, terminal>>
           ELSE GraphGet("Record", RECORD_GRAPH, Validated(properties))
createRecordFromObject_lateValidation(value) ==
    LET properties == SortEntries(value.fields)
        bad == FirstInvalid(properties)
    IN  /\ UNCHANGED <<features, workload>>
        /\ IF ~features THEN Fail(Thrown("Record", "CapabilityMissing", <<>>, Nil))
           ELSE IF ~isObject(value) THEN Fail(Thrown("Record", "Error", <<>>, Nil))
           ELSE IF bad # 0
                THEN /\ result' = validateProperty("Record", properties[bad].v)
                     /\ nodes' = [nodes EXCEPT ![RECORD_GRAPH] = @ \cup Prefixes(properties)]
                     /\ UNCHANGED <<heap, alive, held, terminal>>
           ELSE GraphGet("Record", RECORD_GRAPH, Validated(properties))
createRecordFromObject(value) ==
    LET properties == SortEntries(value.fields)
        bad == FirstInvalid(properties)
    IN  /\ UNCHANGED <<features, workload>>
        /\ IF ~features THEN Fail(Thrown("Record", "CapabilityMissing", <<>>, Nil))
           ELSE IF ~isObject(value) THEN Fail(Thrown("Record", "Error", <<>>, Nil))
           ELSE IF bad # 0 THEN Fail(validateProperty("Record", properties[bad].v))
           ELSE GraphGet("Record", RECORD_GRAPH, Validated(properties))

RecordCall == \E value \in RecordArgs : createRecordFromObject(value)

\* the key/value sequences handed to Record.fromEntries: unique keys, valid
\* values and a function
EntriesArgs ==
    IF workload = "entries"
    THEN FieldLists(Colliding \cup {Entry(KeyA, someFunction)})
    ELSE {}

\* objectFromEntries: a plain object with one property per pair, defined in
\* the order of the pairs (no key is an array index)
objectFromEntries(iterator) == Object(iterator)

\* Record.fromEntries(iterator)
fromEntries(iterator) == createRecordFromObject(objectFromEntries(iterator))

FromEntriesCall == \E iterator \in EntriesArgs : fromEntries(iterator)

\* Tuple(...values): the elements keyed by their zero-based position
TupleEntries_reversed(values) ==
    [i \in 1..Len(values) |-> Entry(<<i - 1>>, values[Len(values) + 1 - i])]
TupleEntries(values) == [i \in 1..Len(values) |-> Entry(<<i - 1>>, values[i])]
createTupleFromValues(values) ==
    LET entries == TupleEntries(values)
        bad == FirstInvalid(entries)
    IN  /\ UNCHANGED <<features, workload>>
        /\ IF ~features THEN Fail(Thrown("Tuple", "CapabilityMissing", <<>>, Nil))
           ELSE IF bad # 0 THEN Fail(Thrown("Tuple", "InvalidEntry", entries[bad].k, entries[bad].v))
           ELSE GraphGet("Tuple", TUPLE_GRAPH, entries)

TupleCall == \E values \in TupleArgs : createTupleFromValues(values)

\* the caller lets go of its reference to c
Drop(c) ==
    /\ c \in held
    /\ held' = held \ {c}
    /\ result' = NoResult
    /\ UNCHANGED <<features, heap, alive, nodes, terminal, workload>>

\* c is referenced from the entries of a live composite
Referenced(c) ==
    \E d \in alive : \E i \in 1..Len(heap[d].entries) :
        heap[d].entries[i].v.t \in Kinds /\ heap[d].entries[i].v.n = c

\* the host reclaims an unreachable composite
Collect_ignoresEntries(c) ==
    /\ c \in alive \ held
    /\ alive' = alive \ {c}
    /\ result' = NoResult
    /\ UNCHANGED <<features, heap, held, nodes, terminal, workload>>
Collect(c) ==
    /\ c \in alive \ held
    /\ ~Referenced(c)
    /\ alive' = alive \ {c}
    /\ result' = NoResult
    /\ UNCHANGED <<features, heap, held, nodes, terminal, workload>>

\* the deferred sweep: every dead subtree is detached from its parent
DeadNodes(kind) == {p \in nodes[kind] \ {<<>>} : DeadSubtree(kind, p)}
Sweep ==
    /\ \E kind \in Kinds : DeadNodes(kind) # {}
    /\ nodes' = [kind \in Kinds |-> nodes[kind] \ DeadNodes(kind)]
    /\ terminal' = [kind \in Kinds |->
                      Restrict(terminal[kind], DOMAIN terminal[kind] \ DeadNodes(kind))]
    /\ result' = NoResult
    /\ UNCHANGED <<features, heap, alive, held, workload>>

\* an attempted assignment c[k] = v on a composite the caller holds
SetField(es, k, v) ==
    IF \E i \in 1..Len(es) : es[i].k = k
    THEN [i \in 1..Len(es) |-> IF es[i].k = k THEN Entry(k, v) ELSE es[i]]
    ELSE Append(es, Entry(k, v))
Assign(c, k, v) ==
    /\ workload = "misuse"
    /\ c \in held
    /\ IF heap[c].frozen
       THEN /\ result' = Thrown("mutate", "TypeError", <<>>, Nil)
            /\ UNCHANGED heap
       ELSE /\ result' = NoResult
            /\ heap' = [heap EXCEPT ![c].entries = SetField(@, k, v)]
    /\ UNCHANGED <<features, alive, held, nodes, terminal, workload>>

\* an attempted delete c[k]
Delete(c, k) ==
    /\ workload = "misuse"
    /\ c \in held
    /\ IF heap[c].frozen
       THEN /\ result' = Thrown("mutate", "TypeError", <<>>, Nil)
            /\ UNCHANGED heap
       ELSE /\ result' = NoResult
            /\ heap' = [heap EXCEPT ![c].entries = SelectSeq(@, LAMBDA e : e.k # k)]
    /\ UNCHANGED <<features, alive, held, nodes, terminal, workload>>

\* what isRecord and isTuple are asked about: a composite the caller holds
\* (id is its identity) or a plain host object with the fields of a held
\* record (id = 0: no composite)
CompositeProbe(c) == [id |-> c, obj |-> TRUE, fields |-> heap[c].entries]
Lookalike(c) == [id |-> 0, obj |-> TRUE, fields |-> heap[c].entries]
ProbeArgs ==
    {CompositeProbe(c) : c \in held}
        \cup {Lookalike(c) : c \in {d \in held : heap[d].kind = "rec"}}

Bool(b) == Val("bool", <<>>, IF b THEN 1 ELSE 0)
Answer(op, x, b) ==
    [op |-> op, ok |-> TRUE, id |-> x.id, error |-> "none", loc |-> <<>>, val |-> Bool(b)]

\* the provenance checks: the value carries the mark of its factory
isRecord(x) == x.id \in Ids /\ heap[x.id].mark = "rec"
isTuple(x) == x.id \in Ids /\ heap[x.id].mark = "tup"

isRecordCall(x) ==
    /\ workload = "misuse"
    /\ result' = Answer("isRecord", x, isRecord(x))
    /\ UNCHANGED <<features, heap, alive, held, nodes, terminal, workload>>
isTupleCall(x) ==
    /\ workload = "misuse"
    /\ result' = Answer("isTuple", x, isTuple(x))
    /\ UNCHANGED <<features, heap, alive, held, nodes, terminal, workload>>

\* --------------------------------------------------------------- functions
\* the function wrappers of the prelude (fns.js): once, loop, n_ary
Recur == Val("recur", <<>>, 0)
never == Val("never", <<>>, 0)

NoCall ==
    [op |-> "none", impl |-> "none", clauses |-> <<>>, nargs |-> 0,
     k |-> 0, max_iter |-> 0, v |-> Nil, fns |-> <<>>]
NoOut == [ok |-> TRUE, value |-> Nil, error |-> "none", calls |-> 0, clause |-> 0]
FnReturned(value, calls, clause) ==
    [ok |-> TRUE, value |-> value, error |-> "none", calls |-> calls, clause |-> clause]
FnThrown(error, calls) ==
    [ok |-> FALSE, value |-> Nil, error |-> error, calls |-> calls, clause |-> 0]

FnsLoaded ==
    /\ fnCall = NoCall
    /\ fnOut = NoOut
    /\ onceResult = never
    /\ runs = 0

\* the function handed to once: x => { if (x == null) throw ...; return x; }
WrappedThrows(x) == x = Nil
Wrapped(x) == x

\* the function once returns, called with x:
\* if (result === never) result = fn(...args); return result;
onceCall(x) ==
    /\ workload = "once"
    /\ fnCall' = [NoCall EXCEPT !.op = "once", !.v = x]
    /\ IF onceResult = never
       THEN /\ runs < MaxRuns
            /\ runs' = runs + 1
            /\ IF WrappedThrows(x)
               THEN fnOut' = FnThrown("Error", 1) /\ UNCHANGED onceResult
               ELSE fnOut' = FnReturned(Wrapped(x), 1, 0) /\ onceResult' = Wrapped(x)
       ELSE /\ fnOut' = FnReturned(onceResult, 0, 0)
            /\ UNCHANGED <<onceResult, runs>>

\* the body handed to loop returns recur(...) the first k times it is called
\* and then the plain value v
Body(k, v, n) == IF n <= k THEN Recur ELSE v

\* looped(...args): result is what the last call of fn returned, iter the
\* value of the counter, calls the number of calls of fn so far
RECURSIVE LoopWhile(_, _, _, _, _, _)
LoopWhile(k, v, max_iter, res, iter, calls) ==
    IF res # Nil /\ res = Recur /\ iter < max_iter
    THEN LoopWhile(k, v, max_iter, Body(k, v, calls + 1), iter + 1, calls + 1)
    ELSE IF iter >= max_iter THEN FnThrown("Too much recursion", calls)
    ELSE FnReturned(res, calls, 0)

loop(k, v, max_iter) == LoopWhile(k, v, max_iter, Body(k, v, 1), 0, 1)

loopCall(k, v, max_iter) ==
    /\ workload = "loop"
    /\ fnCall' = [NoCall EXCEPT !.op = "loop", !.k = k, !.v = v, !.max_iter = max_iter]
    /\ fnOut' = loop(k, v, max_iter)
    /\ UNCHANGED <<onceResult, runs>>

\* n_ary(name, ...clauses): a clause is known by its position in clauses and
\* its declared arity (fn.length); arity_map maps an arity to a clause, and
\* raised tells that the definition threw
Raised == [raised |-> TRUE, map |-> <<>>]
Defined(map) == [raised |-> FALSE, map |-> map]

\* fns.js of the prelude: clauses.reduce((map, fn) => !(fn.length in map)
\*     ? Object.assign(map, {[fn.length]: fn}) : raise(...), {})
RECURSIVE arity_map(_, _, _)
arity_map(clauses, i, map) ==
    IF i > Len(clauses) THEN Defined(map)
    ELSE IF clauses[i] \in DOMAIN map THEN Raised
    ELSE arity_map(clauses, i + 1, Put(map, clauses[i], i))

\* the earlier n_ary (cutting_room, core.js):
\* fns.reduce((map, fn) => Object.assign(map, {[fn.length]: fn}), {})
RECURSIVE arity_map_cutting_room(_, _, _)
arity_map_cutting_room(clauses, i, map) ==
    IF i > Len(clauses) THEN Defined(map)
    ELSE arity_map_cutting_room(clauses, i + 1, Put(map, clauses[i], i))

\* Math.max(...Object.keys(arity_map)); -Infinity of no key is below every
\* number of arguments, as -1 is
max_arity(map) ==
    IF DOMAIN map = {} THEN -1
    ELSE CHOOSE a \in DOMAIN map : \A b \in DOMAIN map : b <= a

Min(a, b) == IF a <= b THEN a ELSE b

\* match_arity(...args) of the prelude, called with nargs arguments
match_arity_exact(map, nargs) ==
    IF nargs \in DOMAIN map
    THEN FnReturned(Num(nargs), 1, map[nargs])
    ELSE FnThrown("Wrong number of arguments", 0)
match_arity(map, nargs) ==
    LET arity == Min(nargs, max_arity(map))
    IN  IF arity \in DOMAIN map
        THEN FnReturned(Num(nargs), 1, map[arity])
        ELSE FnThrown("Wrong number of arguments", 0)

\* match_arity(...args) of the earlier n_ary: let arity = args.length
match_arity_cutting_room(map, nargs) ==
    IF nargs \in DOMAIN map
    THEN FnReturned(Num(nargs), 1, map[nargs])
    ELSE FnThrown("Wrong number of arguments", 0)

\* n_ary(name, ...clauses)(...args): the definition, then the call
n_ary(clauses, nargs) ==
    LET def == arity_map(clauses, 1, <<>>)
    IN  IF def.raised THEN FnThrown("one clause of a given arity", 0)
        ELSE match_arity(def.map, nargs)
n_ary_cutting_room(clauses, nargs) ==
    LET def == arity_map_cutting_room(clauses, 1, <<>>)
    IN  match_arity_cutting_room(def.map, nargs)

ClauseLists == UNION {[1..n -> 0..MaxArity] : n \in 0..MaxClauses}

n_aryCall(impl, clauses, nargs) ==
    /\ workload = "n_ary"
    /\ fnCall' = [NoCall EXCEPT !.op = "n_ary", !.impl = impl,
                                !.clauses = clauses, !.nargs = nargs]
    /\ fnOut' = IF impl = "prelude" THEN n_ary(clauses, nargs)
                ELSE n_ary_cutting_room(clauses, nargs)
    /\ UNCHANGED <<onceResult, runs>>

\* the unary functions handed to pipe:
\*   inc  = x => x == undefined ? 1 : x + 1
\*   dbl  = x => x == undefined ? 0 : 2 * x
\*   none = x => undefined
\*   boom = x => { throw Error() }
Stages == {"inc", "dbl", "none", "boom"}
StageThrows(fn) == fn = "boom"
Stage(fn, x) ==
    CASE fn = "inc" -> IF x = Nil THEN Num(1) ELSE Num(x.n + 1)
      [] fn = "dbl" -> IF x = Nil THEN Num(0) ELSE Num(2 * x.n)
      [] OTHER -> Nil

\* catch (e) { report(...); report(`... ${value.toString()}.`); throw e; }
\* value.toString() of undefined throws a TypeError in the handler
ReportThenThrow(value, calls) ==
    IF value = Nil THEN FnThrown("TypeError", calls) ELSE FnThrown("Error", calls)

\* the pipeline of the unsigned prelude (fns.js), from its i-th function on:
\* value = fn(value); if (value == undefined) return undefined;
RECURSIVE pipeline(_, _, _)
pipeline(fns, i, value) ==
    IF i > Len(fns) THEN FnReturned(value, Len(fns), 0)
    ELSE IF StageThrows(fns[i]) THEN ReportThenThrow(value, i)
    ELSE IF Stage(fns[i], value) = Nil THEN FnReturned(Nil, i, 0)
    ELSE pipeline(fns, i + 1, Stage(fns[i], value))

\* the body of the pipeline of the signed prelude: value = fn(value);
RECURSIVE pipeline_body(_, _, _)
pipeline_body(fns, i, value) ==
    IF i > Len(fns) THEN FnReturned(value, Len(fns), 0)
    ELSE IF StageThrows(fns[i]) THEN ReportThenThrow(value, i)
    ELSE pipeline_body(fns, i + 1, Stage(fns[i], value))

\* the pipeline of the signed prelude: pre: args([is_some]), then the body
pipeline_signed(fns, value) ==
    IF value = Nil THEN FnThrown("did not conform to spec", 0)
    ELSE pipeline_body(fns, 1, value)

\* the pipeline of core.js: x = fn(x) with report(`... ${x}.`) in the
\* handler, and after the loop: return result; no result is declared
RECURSIVE pipeline_core(_, _, _)
pipeline_core(fns, i, x) ==
    IF i > Len(fns) THEN FnThrown("ReferenceError", Len(fns))
    ELSE IF StageThrows(fns[i]) THEN FnThrown("Error", i)
    ELSE pipeline_core(fns, i + 1, Stage(fns[i], x))

\* pipe(...fns)(value)
pipe(impl, fns, value) ==
    CASE impl = "prelude" -> pipeline(fns, 1, value)
      [] impl = "signed" -> pipeline_signed(fns, value)
      [] OTHER -> pipeline_core(fns, 1, value)

Pipelines == UNION {[1..n -> Stages] : n \in 0..MaxStages}

pipeCall(impl, fns, value) ==
    /\ workload = "pipe"
    /\ fnCall' = [NoCall EXCEPT !.op = "pipe", !.impl = impl, !.fns = fns, !.v = value]
    /\ fnOut' = pipe(impl, fns, value)
    /\ UNCHANGED <<onceResult, runs>>

\* ------------------------------------------------------------ multimethods
\* multi(name, on, not_found): on = x => x % 2; the methods are
\* plus10 = x => x + 10 and plus20 = x => x + 20; a not_found handed to
\* multi is x => 0 - 1
Methods == {"plus10", "plus20"}
Method(fn, x) == IF fn = "plus10" THEN Num(x + 10) ELSE Num(x + 20)
DispatchArgs == 0..3
MethodValues == 0..2
on(x) == x % 2
NotFounds == {"method_not_found", "custom"}

\* let map = new Map()
MultiLoaded ==
    /\ multimethod = [map |-> <<>>, not_found |-> "method_not_found"]
    /\ registrations = <<>>

\* what the calls of a multimethod leave of the wrappers' variables
MultiFrame == UNCHANGED <<onceResult, runs>>

\* not_found(...args): method_not_found raises
not_found(x) ==
    IF multimethod.not_found = "method_not_found"
    THEN FnThrown("No method found", 0)
    ELSE FnReturned(Num(0 - 1), 0, 0)

\* boolean(x): x == null || x === false ? false : true
boolean(fn) == fn # "undefined"

\* dispatch(...args): let fn = map.get(on(...args));
\* boolean(fn) ? fn(...args) : not_found(...args)
dispatch(x) ==
    LET fn == IF on(x) \in DOMAIN multimethod.map
              THEN multimethod.map[on(x)] ELSE "undefined"
    IN  IF boolean(fn) THEN FnReturned(Method(fn, x), 1, 0) ELSE not_found(x)

dispatchCall(x) ==
    /\ fnCall' = [NoCall EXCEPT !.op = "dispatch", !.nargs = x]
    /\ fnOut' = dispatch(x)
    /\ UNCHANGED <<multimethod, registrations>>
    /\ MultiFrame

Registered(op, value, fn) == [op |-> op, value |-> value, fn |-> fn]

\* method(multimethod, value, fn): map.set(value, fn); return multimethod
method_keepsFirst(value, fn) ==
    /\ Len(registrations) < MaxRegistrations
    /\ multimethod' = [multimethod EXCEPT !.map =
           IF value \in DOMAIN @ THEN @ ELSE Put(@, value, fn)]
    /\ registrations' = Append(registrations, Registered("method", value, fn))
    /\ fnCall' = [NoCall EXCEPT !.op = "method", !.nargs = value]
    /\ fnOut' = NoOut
    /\ MultiFrame
method(value, fn) ==
    /\ Len(registrations) < MaxRegistrations
    /\ multimethod' = [multimethod EXCEPT !.map = Put(@, value, fn)]
    /\ registrations' = Append(registrations, Registered("method", value, fn))
    /\ fnCall' = [NoCall EXCEPT !.op = "method", !.nargs = value]
    /\ fnOut' = NoOut
    /\ MultiFrame

\* has_method(multimethod, value): map.has(value)
has_method(value) ==
    /\ fnCall' = [NoCall EXCEPT !.op = "has_method", !.nargs = value]
    /\ fnOut' = FnReturned(Bool(value \in DOMAIN multimethod.map), 0, 0)
    /\ UNCHANGED <<multimethod, registrations>>
    /\ MultiFrame

\* delete_method(multimethod, value): map.delete(value)
delete_method(value) ==
    /\ Len(registrations) < MaxRegistrations
    /\ multimethod' = [multimethod EXCEPT !.map = Restrict(@, DOMAIN @ \ {value})]
    /\ registrations' = Append(registrations, Registered("delete_method", value, "undefined"))
    /\ fnCall' = [NoCall EXCEPT !.op = "delete_method", !.nargs = value]
    /\ fnOut' = FnReturned(Bool(value \in DOMAIN multimethod.map), 0, 0)
    /\ MultiFrame

\* -------------------------------------------------------------------- seqs
\* the source is a generator: it yields numbers, and Throws marks a place
\* where its body throws instead of yielding; a generator that has thrown is
\* finished, next() then returns {done: true}
Throws == 0
SourceItems == {1, 2, Throws}
Sources ==
    UNION {{src \in [1..n -> SourceItems] : n > 0 => src[1] # Throws} : n \in 0..MaxSource}

\* the values of the variable result of once, besides a seq (its position in
\* seqs): never, undefined; Threw is a call of rest that threw
NeverRun == 0 - 1
Undefined == 0
Threw == 0 - 2

Done == [done |-> TRUE, value |-> 0]
Yield(value) == [done |-> FALSE, value |-> value]
SeqOf(current) == [current |-> current, rest |-> NeverRun, seen |-> {}]

\* iterator.next(): u is the iterator, the outcome is the iterator after
\* the call and what the call returned or that it threw
IteratorNext(u) ==
    IF u.closed \/ u.pos >= Len(u.source)
    THEN [u |-> [u EXCEPT !.closed = TRUE, !.nexts = @ + 1], threw |-> FALSE, current |-> Done]
    ELSE IF u.source[u.pos + 1] = Throws
    THEN [u |-> [u EXCEPT !.closed = TRUE, !.pos = @ + 1, !.nexts = @ + 1],
          threw |-> TRUE, current |-> Done]
    ELSE [u |-> [u EXCEPT !.pos = @ + 1, !.nexts = @ + 1],
          threw |-> FALSE, current |-> Yield(u.source[u.pos + 1])]

\* first = () => current.done ? undefined : current.value
SeqFirst(st, n) == IF st.s[n].current.done THEN Undefined ELSE st.s[n].current.value

Outcome(u, s, out) == [u |-> u, s |-> s, out |-> out]
Saw(s, n, out) == [s EXCEPT ![n].seen = @ \cup {out}]

\* rest = once(() => current.done ? undefined : create_seq(iterator)),
\* called on the seq n: the once runs its function while result is never,
\* and create_seq starts with let current = iterator.next()
SeqRest(st, n) ==
    IF st.s[n].rest # NeverRun
    THEN Outcome(st.u, Saw(st.s, n, st.s[n].rest), st.s[n].rest)
    ELSE IF st.s[n].current.done
    THEN Outcome(st.u, Saw([st.s EXCEPT ![n].rest = Undefined], n, Undefined), Undefined)
    ELSE LET nx == IteratorNext(st.u)
         IN  IF nx.threw
             THEN Outcome(nx.u, Saw(st.s, n, Threw), Threw)
             ELSE Outcome(nx.u,
                          Append(Saw([st.s EXCEPT ![n].rest = Len(st.s) + 1], n, Len(st.s) + 1),
                                 SeqOf(nx.current)),
                          Len(st.s) + 1)

Here == [u |-> underlying, s |-> seqs]

\* seq(source): create_seq(source[Symbol.iterator]())
SeqsLoaded ==
    /\ underlying = [source |-> <<>>, pos |-> 0, closed |-> TRUE, nexts |-> 1]
    /\ seqs = <<SeqOf(Done)>>
    /\ iterations = <<>>
SeqsInit ==
    /\ \E src \in Sources :
           LET nx == IteratorNext([source |-> src, pos |-> 0, closed |-> FALSE, nexts |-> 0])
           IN  underlying = nx.u /\ seqs = <<SeqOf(nx.current)>>
    /\ iterations = <<>>

\* a caller calls rest() of a seq it has
restCall(n) ==
    /\ n \in 1..Len(seqs)
    /\ LET r == SeqRest(Here, n)
       IN  underlying' = r.u /\ seqs' = r.s
    /\ UNCHANGED iterations

\* iterate(seq): let first = seq.first(); let rest = seq.rest();
Iteration(first, rest, given, state) ==
    [first |-> first, rest |-> rest, given |-> given, state |-> state]
iterate(n) ==
    /\ Len(iterations) < MaxIterations
    /\ LET r == SeqRest(Here, n)
       IN  /\ underlying' = r.u
           /\ seqs' = r.s
           /\ iterations' = Append(iterations,
                  IF r.out = Threw THEN Iteration(Undefined, Undefined, <<>>, "threw")
                  ELSE Iteration(SeqFirst(Here, n), r.out, <<>>, "open"))

\* next() of the iterator it: if (rest === undefined) return {done: true};
\* let next = {value: first, ...}; first = rest.first(); rest = rest.rest();
\* return next; a throw of rest.rest() leaves first assigned and next not
\* returned
next(it) ==
    LET i == iterations[it]
    IN  /\ i.state = "open"
        /\ IF i.rest = Undefined
           THEN /\ iterations' = [iterations EXCEPT ![it].state = "done"]
                /\ UNCHANGED <<underlying, seqs>>
           ELSE LET r == SeqRest(Here, i.rest)
                IN  /\ underlying' = r.u
                    /\ seqs' = r.s
                    /\ iterations' = [iterations EXCEPT ![it] =
                           IF r.out = Threw
                           THEN Iteration(SeqFirst(Here, i.rest), i.rest, i.given, "open")
                           ELSE Iteration(SeqFirst(Here, i.rest), r.out,
                                          Append(i.given, i.first), "open")]

\* -------------------------------------------------------------------- refs
\* prelude/signed/refs.js: one ref the callers swap and watch, and the inner
\* ref of one forward reference
RefNames == {"state", "inner"}
RefValues == {0, 1}

\* the functions handed to the setter of the forward reference, and the
\* initial value of its inner ref, a function that raises
Fns == {"f", "g"}
NotSet == "not set"

\* the functions handed to watch: one that only looks at the value, one
\* that swaps the ref back to 0, one that unwatches the watcher created
\* after its own
WatcherBodies == {"observe", "reset", "cancel"}

Ev(e, w, v) == [e |-> e, w |-> w, v |-> v]

\* create(ref_t, {name, doc, value, pending: false, watchers: [], attrs})
ref(value) == [value |-> value, pending |-> FALSE, watchers |-> <<>>]
deref(r) == r.value
eq(a, b) == a = b

\* the refs, the event loop and the log of the step, as one value st that
\* the functions below transform
Now ==
    [refs |-> refs, timers |-> timers, events |-> <<>>, owed |-> owed,
     once |-> setResult]

\* future(fn, args): setTimeout(() => fn(...args), 0)
future(st, r) == [st EXCEPT !.timers = Append(@, r)]

swap(st, r, new_value) ==
    IF ~eq(st.refs[r].value, new_value)
    THEN future([st EXCEPT !.refs[r].value = new_value,
                           !.refs[r].pending = TRUE,
                           !.owed = @ \cup Range(st.refs[r].watchers),
                           !.events = Append(@, Ev("swap", 0, new_value))], r)
    ELSE st

\* unwatch(watcher): ref.watchers becomes a new array without the watcher
unwatch(st, watcher) ==
    [st EXCEPT !.refs["state"].watchers = SelectSeq(@, LAMBDA w : w # watcher),
               !.owed = @ \ {watcher},
               !.events = Append(@, Ev("unwatch", watcher, 0))]

\* fn(deref(ref), ...args) for the watcher w, and what its function does
RunWatcher(st, r, w) ==
    LET called == [st EXCEPT !.events = Append(@, Ev("call", w, deref(st.refs[r]))),
                             !.owed = @ \ {w}]
    IN  CASE watcherFns[w] = "observe" -> called
          [] watcherFns[w] = "reset" -> swap(called, r, 0)
          [] watcherFns[w] = "cancel" ->
                IF w + 1 <= Len(watcherFns) THEN unwatch(called, w + 1) ELSE called

\* for (let {fn, args} of ref.watchers): the loop runs over the array that
\* ref.watchers was when it started
RECURSIVE CallAll(_, _, _, _)
CallAll(st, r, ws, i) ==
    IF i > Len(ws) THEN st
    ELSE CallAll(RunWatcher(st, r, ws[i]), r, ws, i + 1)

ping_watchers(st, r) ==
    LET after == IF st.refs[r].pending
                 THEN CallAll(st, r, st.refs[r].watchers, 1)
                 ELSE st
    IN  [after EXCEPT !.refs[r].pending = FALSE]

\* the setter of forward: Fn.once((f) => { swap(inner, f); }), whose cached
\* result is undefined after the first call
set_everyTime(st, f) ==
    LET called == [st EXCEPT !.events = Append(@, Ev("set", 0, f))]
    IN  [swap(called, "inner", f) EXCEPT !.once = "undefined"]
set(st, f) ==
    LET called == [st EXCEPT !.events = Append(@, Ev("set", 0, f))]
    IN  IF st.once = "never"
        THEN [swap(called, "inner", f) EXCEPT !.once = "undefined"]
        ELSE called

\* out = (...args) => deref(inner)(...args)
out(st) ==
    IF deref(st.refs["inner"]) = NotSet
    THEN [st EXCEPT !.events = Append(@, Ev("raise", 0, NotSet))]
    ELSE [st EXCEPT !.events = Append(@, Ev("delegate", 0, deref(st.refs["inner"])))]

Commit(st) ==
    /\ Len(st.timers) <= MaxTimers
    /\ refs' = st.refs
    /\ timers' = st.timers
    /\ events' = st.events
    /\ owed' = st.owed
    /\ setResult' = st.once

Swap(new_value) ==
    /\ workload = "watchers"
    /\ Commit(swap(Now, "state", new_value))
    /\ UNCHANGED watcherFns

\* watch(ref, fn): a new Watcher, pushed on ref.watchers
Watch(body) ==
    /\ workload = "watchers"
    /\ Len(watcherFns) < MaxWatchers
    /\ watcherFns' = Append(watcherFns, body)
    /\ refs' = [refs EXCEPT !["state"].watchers = Append(@, Len(watcherFns) + 1)]
    /\ events' = <<Ev("watch", Len(watcherFns) + 1, 0)>>
    /\ UNCHANGED <<timers, owed, setResult>>

Unwatch(watcher) ==
    /\ workload = "watchers"
    /\ Commit(unwatch(Now, watcher))
    /\ UNCHANGED watcherFns

\* the event loop runs the oldest timeout
Tick ==
    /\ timers # <<>>
    /\ Commit(ping_watchers([Now EXCEPT !.timers = Tail(timers)], Head(timers)))
    /\ UNCHANGED watcherFns

SetCall(f) ==
    /\ workload = "forward"
    /\ Commit(set(Now, f))
    /\ UNCHANGED watcherFns

OutCall ==
    /\ workload = "forward"
    /\ Commit(out(Now))
    /\ UNCHANGED watcherFns

\* the module is loaded and forward(name) has been called once
RefsLoaded ==
    /\ refs = [r \in RefNames |-> IF r = "inner" THEN ref(NotSet) ELSE ref(0)]
    /\ watcherFns = <<>>
    /\ timers = <<>>
    /\ events = <<>>
    /\ owed = {}
    /\ setResult = "never"

\* --------------------------------------------------------- pruning policies
\* the graph above prunes on traversal; the engines of the other two
\* policies run on the same host (heap, alive, held) and are handed the same
\* calls: "deferred" prunes in a sweep only, "never" does not prune
Policies == {"deferred", "never"}
Engine(n, t, r) == [nodes |-> n, terminal |-> t, result |-> r]
EngineLoaded ==
    Engine([kind \in Kinds |-> {<<>>}], [kind \in Kinds |-> <<>>], NoResult)
EnginesLoaded == engines = [policy \in Policies |-> EngineLoaded]

LiveSlot(g, kind, p) ==
    p \in DOMAIN g.terminal[kind] /\ g.terminal[kind][p] \in alive

\* get_or_create without pruning: the live terminal of the final node, or a
\* fresh composite (the next identity of the heap) stored in its slot
EngineGet(g, op, kind, es) ==
    IF es \in g.nodes[kind] /\ LiveSlot(g, kind, es)
    THEN Engine(g.nodes, g.terminal, Returned(op, g.terminal[kind][es]))
    ELSE Engine([g.nodes EXCEPT ![kind] = @ \cup Prefixes(es)],
                [g.terminal EXCEPT ![kind] = Put(@, es, Len(heap) + 1)],
                Returned(op, Len(heap) + 1))

\* the deferred sweep of an engine
EngineDead(g, kind) ==
    {p \in g.nodes[kind] \ {<<>>} :
        \A q \in g.nodes[kind] : IsPrefix(p, q) => ~LiveSlot(g, kind, q)}
EngineSweep(g) ==
    Engine([kind \in Kinds |-> g.nodes[kind] \ EngineDead(g, kind)],
           [kind \in Kinds |->
               Restrict(g.terminal[kind], DOMAIN g.terminal[kind] \ EngineDead(g, kind))],
           NoResult)

EnginesGet(op, kind, es) ==
    engines' = [policy \in Policies |-> EngineGet(engines[policy], op, kind, es)]
EnginesRest ==
    engines' = [policy \in Policies |-> [engines[policy] EXCEPT !.result = NoResult]]

PolicyRecordCall ==
    \E value \in RecordArgs :
        /\ createRecordFromObject(value)
        /\ EnginesGet("Record", RECORD_GRAPH, Validated(SortEntries(value.fields)))
PolicyTupleCall ==
    \E values \in TupleArgs :
        /\ createTupleFromValues(values)
        /\ EnginesGet("Tuple", TUPLE_GRAPH, TupleEntries(values))
PolicyDrop(c) == Drop(c) /\ EnginesRest
PolicyCollect(c) == Collect(c) /\ EnginesRest
PolicySweep ==
    /\ \E kind \in Kinds : EngineDead(engines["deferred"], kind) # {}
    /\ engines' = [policy \in Policies |->
                      IF policy = "deferred" THEN EngineSweep(engines[policy])
                      ELSE [engines[policy] EXCEPT !.result = NoResult]]
    /\ result' = NoResult
    /\ UNCHANGED <<features, heap, alive, held, nodes, terminal, workload>>

\* ------------------------------------------------------- parallel callers
\* get_or_create run by threads, one serialized access to a node per step:
\* the child mapping of a node on the way down (one lock per node), then the
\* terminal slot of the final node, read first and published by
\* compare-and-swap
ThreadIds == 1..MaxThreads
Walking(es, inner) == [pc |-> "walk", es |-> es, i |-> 0, inner |-> inner, got |-> 0]
Waiting == [pc |-> "idle", es |-> <<>>, i |-> 0, inner |-> FALSE, got |-> 0]
ThreadsLoaded == threads = [t \in ThreadIds |-> Waiting]

\* the entries every thread interns: the record {a: 1, "a,b": 1}, or the
\* record {a: 1} and then the record {a: <that record>}
FlatEntries == SortEntries(<<Entry(KeyAB, Num(1)), Entry(KeyA, Num(1))>>)
InnerEntries == <<Entry(KeyA, Num(1))>>
OuterEntries(inner) == <<Entry(KeyA, Ref("rec", inner))>>

ThreadFrame == UNCHANGED <<features, workload, result>>

\* the call starts at the root; a nested record is interned first
Start(t) ==
    /\ threads[t].pc = "idle"
    /\ threads' = [threads EXCEPT ![t] =
           IF workload = "reentrant" THEN Walking(InnerEntries, TRUE)
           ELSE Walking(FlatEntries, FALSE)]
    /\ UNCHANGED <<heap, alive, held, nodes, terminal>>
    /\ ThreadFrame

\* look up the child keyed by the next entry, create it if there is none,
\* descend
Descend(t) ==
    LET th == threads[t]
    IN  /\ th.pc = "walk"
        /\ th.i < Len(th.es)
        /\ nodes' = [nodes EXCEPT ![RECORD_GRAPH] = @ \cup {SubSeq(th.es, 1, th.i + 1)}]
        /\ threads' = [threads EXCEPT ![t].i = th.i + 1]
        /\ UNCHANGED <<heap, alive, held, terminal>>
        /\ ThreadFrame

\* get_or_create returns c to thread t: the result of its call, or the
\* nested record with which its outer call begins
Return(t, c) ==
    IF threads[t].inner
    THEN [threads EXCEPT ![t] = Walking(OuterEntries(c), FALSE)]
    ELSE [threads EXCEPT ![t].pc = "done", ![t].got = c]

\* inspect the terminal slot of the final node
Inspect(t) ==
    LET th == threads[t]
    IN  /\ th.pc = "walk"
        /\ th.i = Len(th.es)
        /\ IF LiveTerminal(RECORD_GRAPH, th.es)
           THEN /\ held' = held \cup {terminal[RECORD_GRAPH][th.es]}
                /\ threads' = Return(t, terminal[RECORD_GRAPH][th.es])
           ELSE /\ threads' = [threads EXCEPT ![t].pc = "publish"]
                /\ UNCHANGED held
        /\ UNCHANGED <<heap, alive, nodes, terminal>>
        /\ ThreadFrame

\* store a fresh composite in the slot found empty or expired
Store(t) ==
    /\ Len(heap) < MaxNested
    /\ heap' = Append(heap, Creator(RECORD_GRAPH, threads[t].es))
    /\ alive' = alive \cup {Len(heap) + 1}
    /\ held' = held \cup {Len(heap) + 1}
    /\ terminal' = [terminal EXCEPT ![RECORD_GRAPH] = Put(@, threads[t].es, Len(heap) + 1)]
    /\ threads' = Return(t, Len(heap) + 1)

\* publication by compare-and-swap: the composite another thread has
\* published in the meantime wins
Publish_blind(t) ==
    /\ threads[t].pc = "publish"
    /\ Store(t)
    /\ UNCHANGED nodes
    /\ ThreadFrame
Publish(t) ==
    /\ threads[t].pc = "publish"
    /\ IF LiveTerminal(RECORD_GRAPH, threads[t].es)
       THEN /\ held' = held \cup {terminal[RECORD_GRAPH][threads[t].es]}
            /\ threads' = Return(t, terminal[RECORD_GRAPH][threads[t].es])
            /\ UNCHANGED <<heap, alive, terminal>>
       ELSE Store(t)
    /\ UNCHANGED nodes
    /\ ThreadFrame

\* what the graph holds when the threads start: nothing, the record of the
\* first call held by another caller, or that record reclaimed
FirstEntries == IF workload = "reentrant" THEN InnerEntries ELSE FlatEntries
ThreadsInit ==
    /\ workload \in {"parallel", "reentrant"}
    /\ features = TRUE
    /\ result = NoResult
    /\ \E before \in {"nothing", "held", "reclaimed"} :
           IF before = "nothing"
           THEN /\ heap = <<>> /\ alive = {} /\ held = {}
                /\ nodes = [kind \in Kinds |-> {<<>>}]
                /\ terminal = [kind \in Kinds |-> <<>>]
           ELSE /\ heap = <<Creator(RECORD_GRAPH, FirstEntries)>>
                /\ alive = (IF before = "held" THEN {1} ELSE {})
                /\ held = alive
                /\ nodes = [kind \in Kinds |->
                               IF kind = RECORD_GRAPH THEN Prefixes(FirstEntries) ELSE {<<>>}]
                /\ terminal = [kind \in Kinds |->
                                  IF kind = RECORD_GRAPH THEN Put(<<>>, FirstEntries, 1) ELSE <<>>]

GraphLoaded ==
    /\ EnginesLoaded
    /\ ThreadsLoaded
    /\ MultiLoaded
    /\ SeqsLoaded
    /\ features = TRUE
    /\ heap = <<>>
    /\ alive = {}
    /\ held = {}
    /\ nodes = [kind \in Kinds |-> {<<>>}]
    /\ terminal = [kind \in Kinds |-> <<>>]
    /\ result = NoResult

RefsInit ==
    /\ GraphLoaded
    /\ RefsLoaded
    /\ FnsLoaded
    /\ workload \in {"watchers", "forward"}

\* the interning graph is not touched by the refs
GraphIdle ==
    UNCHANGED <<graphVars, workload, fnVars, policyVars, threadVars, multiVars, seqVars>>

RefsNext ==
    \/ \E new_value \in RefValues : Swap(new_value) /\ GraphIdle
    \/ \E body \in WatcherBodies : Watch(body) /\ GraphIdle
    \/ \E watcher \in 1..Len(watcherFns) : Unwatch(watcher) /\ GraphIdle
    \/ Tick /\ GraphIdle
    \/ \E f \in Fns : SetCall(f) /\ GraphIdle
    \/ OutCall /\ GraphIdle

RefsSpec == RefsInit /\ [][RefsNext]_vars

\* the graph and the refs are not touched by the wrappers
LibIdle ==
    UNCHANGED <<graphVars, workload, refVars, policyVars, threadVars, multiVars, seqVars>>

FnInit ==
    /\ GraphLoaded
    /\ RefsLoaded
    /\ FnsLoaded
    /\ workload \in {"once", "loop", "n_ary", "pipe"}

FnNext ==
    \/ \E x \in {Nil, Num(1), Num(2)} : onceCall(x) /\ LibIdle
    \/ \E k \in 0..MaxRecur, max_iter \in 0..MaxIter, v \in {Nil, Num(1)} :
           loopCall(k, v, max_iter) /\ LibIdle
    \/ \E impl \in {"prelude", "cutting_room"}, clauses \in ClauseLists, nargs \in 0..MaxArgs :
           n_aryCall(impl, clauses, nargs) /\ LibIdle
    \/ \E impl \in {"prelude", "signed", "core"}, fns \in Pipelines, value \in {Nil, Num(1)} :
           pipeCall(impl, fns, value) /\ LibIdle

FnSpec == FnInit /\ [][FnNext]_vars

PolicyInit ==
    /\ GraphLoaded
    /\ RefsLoaded
    /\ FnsLoaded
    /\ workload \in {"fields", "elements"}

\* the refs and the wrappers are not touched by the engines
HostIdle ==
    UNCHANGED <<refVars, fnVars, threadVars, multiVars, seqVars>>

PolicyNext ==
    \/ PolicyRecordCall /\ HostIdle
    \/ PolicyTupleCall /\ HostIdle
    \/ \E c \in Ids : PolicyDrop(c) /\ HostIdle
    \/ \E c \in Ids : PolicyCollect(c) /\ HostIdle
    \/ PolicySweep /\ HostIdle

PolicySpec == PolicyInit /\ [][PolicyNext]_vars

ThreadInit ==
    /\ MultiLoaded
    /\ SeqsLoaded
    /\ ThreadsInit
    /\ ThreadsLoaded
    /\ EnginesLoaded
    /\ RefsLoaded
    /\ FnsLoaded

\* the threads touch the graph and nothing else
RestIdle ==
    UNCHANGED <<refVars, fnVars, policyVars, multiVars, seqVars>>

ThreadNext ==
    \/ \E t \in ThreadIds : Start(t) /\ RestIdle
    \/ \E t \in ThreadIds : Descend(t) /\ RestIdle
    \/ \E t \in ThreadIds : Inspect(t) /\ RestIdle
    \/ \E t \in ThreadIds : Publish(t) /\ RestIdle

ThreadSpec == ThreadInit /\ [][ThreadNext]_vars

\* a multimethod made with the default not_found or with one of its own
MultiInit ==
    /\ features = TRUE
    /\ heap = <<>>
    /\ alive = {}
    /\ held = {}
    /\ nodes = [kind \in Kinds |-> {<<>>}]
    /\ terminal = [kind \in Kinds |-> <<>>]
    /\ result = NoResult
    /\ EnginesLoaded
    /\ ThreadsLoaded
    /\ RefsLoaded
    /\ FnsLoaded
    /\ workload = "multi"
    /\ SeqsLoaded
    /\ \E nf \in NotFounds : multimethod = [map |-> <<>>, not_found |-> nf]
    /\ registrations = <<>>

\* the multimethod touches its own Map and nothing else
MultiIdle ==
    UNCHANGED <<graphVars, workload, refVars, policyVars, threadVars, seqVars>>

MultiNext ==
    \/ \E x \in DispatchArgs : dispatchCall(x) /\ MultiIdle
    \/ \E value \in MethodValues, fn \in Methods : method(value, fn) /\ MultiIdle
    \/ \E value \in MethodValues : has_method(value) /\ MultiIdle
    \/ \E value \in MethodValues : delete_method(value) /\ MultiIdle

MultiSpec == MultiInit /\ [][MultiNext]_vars

\* a seq over each source
SeqInit ==
    /\ features = TRUE
    /\ heap = <<>>
    /\ alive = {}
    /\ held = {}
    /\ nodes = [kind \in Kinds |-> {<<>>}]
    /\ terminal = [kind \in Kinds |-> <<>>]
    /\ result = NoResult
    /\ EnginesLoaded
    /\ ThreadsLoaded
    /\ MultiLoaded
    /\ RefsLoaded
    /\ FnsLoaded
    /\ workload = "seq"
    /\ SeqsInit

\* the seqs touch their iterator and nothing else
SeqIdle ==
    UNCHANGED <<graphVars, workload, refVars, fnVars, policyVars, threadVars, multiVars>>

SeqNext ==
    \/ \E n \in 1..Len(seqs) : restCall(n) /\ SeqIdle
    \/ iterate(1) /\ SeqIdle
    \/ \E it \in 1..Len(iterations) : next(it) /\ SeqIdle

SeqSpec == SeqInit /\ [][SeqNext]_vars

Init ==
    /\ EnginesLoaded
    /\ ThreadsLoaded
    /\ MultiLoaded
    /\ SeqsLoaded
    /\ RefsLoaded
    /\ FnsLoaded
    /\ features \in BOOLEAN
    /\ heap = <<>>
    /\ alive = {}
    /\ held = {}
    /\ nodes = [kind \in Kinds |-> {<<>>}]
    /\ terminal = [kind \in Kinds |-> <<>>]
    /\ result = NoResult
    /\ workload \in Workloads

\* the refs are not touched by the constructors
RefsIdle ==
    UNCHANGED <<refVars, fnVars, policyVars, threadVars, multiVars, seqVars>>

Next ==
    \/ RecordCall /\ RefsIdle
    \/ FromEntriesCall /\ RefsIdle
    \/ TupleCall /\ RefsIdle
    \/ \E c \in Ids : Drop(c) /\ RefsIdle
    \/ \E c \in Ids : Collect(c) /\ RefsIdle
    \/ Sweep /\ RefsIdle
    \/ \E c \in Ids, k \in Keys, v \in PrimVals : Assign(c, k, v) /\ RefsIdle
    \/ \E c \in Ids, k \in Keys : Delete(c, k) /\ RefsIdle
    \/ \E x \in ProbeArgs : isRecordCall(x) /\ RefsIdle
    \/ \E x \in ProbeArgs : isTupleCall(x) /\ RefsIdle

Spec == Init /\ [][Next]_vars

\* the deferred sweep is periodic: it is not postponed forever
FairSpec == Spec /\ WF_vars(Sweep /\ RefsIdle)

TypeOK ==
    /\ alive \subseteq Ids
    /\ held \subseteq alive

\* ------------------------------------------------------------------ claims
\* the fields of a composite as a set: the content of a Record
Fields(c) == Range(heap[c].entries)

\* a and b hold the same content: the same fields for Records, the same
\* elements in the same positions for Tuples; nested composites by identity
SameContent(a, b) ==
    /\ heap[a].kind = heap[b].kind
    /\ IF heap[a].kind = "rec" THEN Fields(a) = Fields(b)
       ELSE heap[a].entries = heap[b].entries

\* C1: two live composites of the same kind hold the same content if and
\* only if they are the same object; no content has two live instances.
C1_OneLiveInstancePerContent ==
    \A a, b \in alive : SameContent(a, b) <=> a = b

\* C2: Record returns the instance it returned before, while that instance
\* is held, for every enumeration order of the same fields.
C2_OrderIndependence ==
    [][(result'.op = "Record" /\ result'.ok) => \A value \in RecordArgs :
           createRecordFromObject(value) =>
               \A c \in held :
                   (heap[c].kind = "rec" /\ Fields(c) = Range(value.fields))
                       => result'.id = c]_vars

\* C3: a Record call returns an instance that holds exactly the normalized
\* entries of its source, never a live instance of other entries (another
\* value, a prefix, an extension), and every other live record stays the
\* terminal of its own path.
C3_ContentSensitivity ==
    [][(result'.op = "Record" /\ result'.ok) => \A value \in RecordArgs :
           createRecordFromObject(value) =>
               /\ heap'[result'.id].entries = SortEntries(value.fields)
               /\ \A c \in alive :
                      (heap[c].kind = "rec" /\ heap[c].entries # SortEntries(value.fields))
                          => /\ result'.id # c
                             /\ c \in alive'
                             /\ heap[c].entries \in DOMAIN terminal'["rec"]
                             /\ terminal'["rec"][heap[c].entries] = c]_vars

\* two held records on one trie path, the entries of one a strict prefix of
\* the entries of the other
C3_PrefixPairLive ==
    \E a, b \in held :
        /\ heap[a].kind = "rec" /\ heap[b].kind = "rec"
        /\ Len(heap[a].entries) < Len(heap[b].entries)
        /\ IsPrefix(heap[a].entries, heap[b].entries)
        /\ terminal["rec"][heap[a].entries] = a
        /\ terminal["rec"][heap[b].entries] = b
        /\ result.id = b

\* C4: a Tuple call returns an instance whose elements are the arguments in
\* their positions; it is the held instance of the same sequence if there
\* is one, and it is no live instance of another sequence (a permutation).
C4_PositionalSensitivity ==
    [][(result'.op = "Tuple" /\ result'.ok) => \A values \in TupleArgs :
           createTupleFromValues(values) =>
               /\ Len(heap'[result'.id].entries) = Len(values)
               /\ \A i \in 1..Len(values) :
                      /\ heap'[result'.id].entries[i].v = values[i]
                      /\ heap'[result'.id].entries[i].k = <<i - 1>>
               /\ \A c \in held :
                      heap[c].kind = "tup" =>
                          (result'.id = c <=>
                               /\ Len(heap[c].entries) = Len(values)
                               /\ \A i \in 1..Len(values) : heap[c].entries[i].v = values[i])]_vars

\* Tuple(1, "b,1") and Tuple("b,1", 1) held at the same time, the second
\* returned again by a repeated call
C4_PermutationsLive ==
    \E a, b \in held :
        /\ a # b
        /\ heap[a].kind = "tup" /\ heap[b].kind = "tup"
        /\ Len(heap[a].entries) = 2 /\ Len(heap[b].entries) = 2
        /\ heap[a].entries[1].v = heap[b].entries[2].v
        /\ heap[a].entries[2].v = heap[b].entries[1].v
        /\ heap[a].entries[1].v # heap[a].entries[2].v
        /\ result.op = "Tuple" /\ result.id = a /\ a < b

\* a and b hold equal content, the nested composites compared by their
\* content in turn
RECURSIVE DeepEqual(_, _)
DeepEqual(a, b) ==
    /\ heap[a].kind = heap[b].kind
    /\ Len(heap[a].entries) = Len(heap[b].entries)
    /\ \A e \in Fields(a) : \E f \in Fields(b) :
           /\ e.k = f.k
           /\ IF e.v.t \in Kinds /\ f.v.t \in Kinds
              THEN DeepEqual(e.v.n, f.v.n)
              ELSE e.v = f.v

HasNestedRecord(c) == \E e \in Fields(c) : e.v.t = "rec"

\* C5: two live Records with a Record-valued field, built from equal
\* content at every depth, are the same outer instance.
C5_RecursiveCanonicalization ==
    \A a, b \in alive :
        (heap[a].kind = "rec" /\ HasNestedRecord(a) /\ DeepEqual(a, b)) => a = b

\* C6: there is at most one live empty composite of each kind, it is the
\* terminal of the root of its kind, and a constructor returns a composite
\* of its own kind (the kinds do not share a root).
C6_SingletonEmpties ==
    /\ \A a, b \in alive :
           (heap[a].kind = heap[b].kind /\ heap[a].entries = <<>> /\ heap[b].entries = <<>>)
               => a = b
    /\ \A c \in alive :
           heap[c].entries = <<>> =>
               (<<>> \in DOMAIN terminal[heap[c].kind] /\ terminal[heap[c].kind][<<>>] = c)
    /\ (result.op = "Record" /\ result.ok) => heap[result.id].kind = "rec"
    /\ (result.op = "Tuple" /\ result.ok) => heap[result.id].kind = "tup"
    /\ (result.op \in {"Record", "Tuple"} /\ result.ok) => result.id \in alive

\* the empty Tuple is held and Record({}) has just returned the empty
\* Record for the second time
C6_BothEmptiesHeld ==
    /\ result.op = "Record" /\ result.ok
    /\ heap[result.id].entries = <<>>
    /\ result.id < Len(heap)
    /\ \E t \in held : heap[t].kind = "tup" /\ heap[t].entries = <<>>

InvalidAt(es) == {i \in 1..Len(es) : ~Valid(es[i].v)}

C8_NoPartialSuccess ==
    [][(result'.op \in {"Record", "Tuple"} /\ ~result'.ok) =>
           UNCHANGED <<nodes, terminal, heap, alive, held>>]_vars

\* a call has just failed while the record graph holds a live record
C8_FailedOnPopulatedGraph ==
    /\ result.op = "Record" /\ ~result.ok
    /\ result.error \in {"InvalidEntry", "Error"}
    /\ \E c \in held : heap[c].kind = "rec" /\ heap[c].entries # <<>>
                       /\ terminal["rec"][heap[c].entries] = c

\* C10: the entries of a composite never change while it is live, and an
\* attempted assignment or deletion is rejected.
C10_Immutability ==
    [][/\ \A c \in alive : c \in alive' => heap'[c] = heap[c]
       /\ result'.op = "mutate" => (~result'.ok /\ heap' = heap)]_vars

\* an assignment to a held, non-empty Record has just been rejected
C10_MutationRejected ==
    /\ result.op = "mutate" /\ result.error = "TypeError"
    /\ \E c \in held : heap[c].kind = "rec" /\ heap[c].entries # <<>>

C11_WeakOwnership ==
    /\ [][/\ \A c \in alive \ alive' : c \notin held /\ ~Referenced(c)
          /\ \A d \in Ids \ alive : d \notin alive' /\ d \notin held'
          /\ result'.op \in {"Record", "Tuple"} =>
                 /\ alive \subseteq alive'
                 /\ result'.ok => result'.id \in alive']_vars
    /\ [](\A c \in alive \ held : ~Referenced(c) => ENABLED Collect(c))

\* an unheld record is kept by the entries of a held one, another composite
\* has been reclaimed while its terminal slot is still in the trie
C11_KeptByEntriesOnly ==
    /\ \E c \in alive \ held : Referenced(c)
    /\ \E c \in Ids \ alive : \E p \in DOMAIN terminal[heap[c].kind] :
           terminal[heap[c].kind][p] = c

\* C12: while a required host primitive is missing, every constructor call
\* fails with CapabilityMissing whatever its argument, and the interning
\* graph and the heap stay as they were at load time.
C12_GuardBeforeInterning ==
    /\ [][(~features /\ result'.op \in {"Record", "Tuple"}) =>
              /\ ~result'.ok /\ result'.error = "CapabilityMissing"
              /\ UNCHANGED <<nodes, terminal, heap, alive, held>>]_vars
    /\ [](~features =>
              /\ heap = <<>>
              /\ \A kind \in Kinds : nodes[kind] = {<<>>} /\ terminal[kind] = <<>>)

\* a Record call has just failed on a host without the primitives, in a run
\* whose callers also pass non-objects and invalid values
C12_RecordRefused ==
    /\ ~features /\ workload = "misuse"
    /\ result.op = "Record" /\ result.error = "CapabilityMissing"

\* the composites isRecord and isTuple answer true for
MarkedRecords == {c \in Ids : isRecord(CompositeProbe(c))}
MarkedTuples == {c \in Ids : isTuple(CompositeProbe(c))}

\* C13: isRecord is true of a value exactly when a Record call returned it
\* and isTuple exactly when a Tuple call did: a composite gets its answer
\* in the step that allocates it and keeps it, a returned composite has the
\* answer of its factory only, and a plain object with the fields of a held
\* record is no Record and no Tuple.
C13_Provenance ==
    /\ [][/\ MarkedRecords \subseteq MarkedRecords'
          /\ MarkedTuples \subseteq MarkedTuples'
          /\ MarkedRecords' \ MarkedRecords \subseteq
                 (IF result'.op \in {"Record"} /\ result'.ok
                  THEN {result'.id} ELSE {})
          /\ MarkedTuples' \ MarkedTuples \subseteq
                 (IF result'.op = "Tuple" /\ result'.ok THEN {result'.id} ELSE {})
          /\ result'.op = "isRecord" => \A x \in ProbeArgs :
                 isRecordCall(x) => (result'.val = Bool(TRUE) <=> x.id \in MarkedRecords)
          /\ result'.op = "isTuple" => \A x \in ProbeArgs :
                 isTupleCall(x) => (result'.val = Bool(TRUE) <=> x.id \in MarkedTuples)]_vars
    /\ []((result.op \in {"Record"} /\ result.ok) =>
              (result.id \in MarkedRecords /\ result.id \notin MarkedTuples))
    /\ []((result.op = "Tuple" /\ result.ok) =>
              (result.id \in MarkedTuples /\ result.id \notin MarkedRecords))
    /\ [](Ids = MarkedRecords \cup MarkedTuples)

\* isRecord has just answered false for a plain object with the fields of a
\* held, non-empty record, while a Tuple is held as well
C13_LookalikeRefused ==
    /\ result.op = "isRecord" /\ result.id = 0 /\ result.val = Bool(FALSE)
    /\ \E c \in held : heap[c].kind = "rec" /\ heap[c].entries # <<>>
    /\ \E t \in held : heap[t].kind = "tup"

\* the source objects that hold the fields of pairs, in every order of
\* definition
ObjectsHolding(pairs) ==
    {Object(f) : f \in {g \in FieldLists(Range(pairs)) : Len(g) = Len(pairs)}}

\* C14: a call of Record.fromEntries on pairs with unique keys does what a
\* call of Record does on any object that holds those fields: the same
\* instance returned or the same failure, the same graph afterwards.
C14_FromEntriesSamePath ==
    [][(workload = "entries" /\ result'.op = "Record") =>
           \A pairs \in EntriesArgs :
               fromEntries(pairs) =>
                   \A value \in ObjectsHolding(pairs) : createRecordFromObject(value)]_vars

\* the watchers the step called, in order
Called(evs) == {evs[i].w : i \in {j \in 1..Len(evs) : evs[j].e = "call"}}

\* C15: a swap to another value is seen by deref at once and calls no
\* watcher in the same step; and once the event loop has cleared, every
\* watcher that was registered when the value changed has been called since.
C15_SwapThenNotify ==
    /\ [][\A new_value \in RefValues :
              (Swap(new_value) /\ ~eq(deref(refs["state"]), new_value)) =>
                  /\ deref(refs'["state"]) = new_value
                  /\ Called(events') = {}]_vars
    /\ [](timers = <<>> => owed = {})

\* C16: a watcher that was unwatched is not called again, in a later step
\* or later in the step that unwatched it, and unwatch leaves the other
\* watchers registered in their order.
C16_UnwatchStops ==
    [][/\ \A w \in 1..Len(watcherFns) :
              w \notin Range(refs["state"].watchers) => w \notin Called(events')
       /\ \A i, j \in 1..Len(events') :
              (i < j /\ events'[i].e = "unwatch" /\ events'[j].e = "call")
                  => events'[j].w # events'[i].w
       /\ \A w \in 1..Len(watcherFns) :
              Unwatch(w) => refs'["state"].watchers =
                                SelectSeq(refs["state"].watchers, LAMBDA x : x # w)]_vars

\* C17: the forward function raises while the setter has not been called,
\* the first setter call makes the inner ref hold its argument, every later
\* setter call changes nothing, and the forward function delegates to the
\* function the inner ref holds, which is the argument of the first call.
C17_ForwardSetOnce ==
    /\ [](setResult = "never" => deref(refs["inner"]) = NotSet)
    /\ [][/\ OutCall =>
                 events' = (IF setResult = "never"
                            THEN <<Ev("raise", 0, NotSet)>>
                            ELSE <<Ev("delegate", 0, deref(refs["inner"]))>>)
          /\ \A f \in Fns :
                 SetCall(f) =>
                     IF setResult = "never"
                     THEN deref(refs'["inner"]) = f /\ setResult' # "never"
                     ELSE refs' = refs /\ timers' = timers /\ setResult' = setResult
          /\ setResult # "never" =>
                 /\ deref(refs'["inner"]) = deref(refs["inner"])
                 /\ deref(refs["inner"]) \in Fns]_vars

\* the setter, called with f before, has just been called with g, and the
\* inner ref still holds f
C17_LaterSetIgnored ==
    /\ workload = "forward"
    /\ events = <<Ev("set", 0, "g")>>
    /\ deref(refs["inner"]) = "f"

\* C18: the function wrapped by once is run at most one time over any
\* sequence of calls, and every call that returns gives the cached value.
C18_RunOnce ==
    /\ [](runs <= 1)
    /\ [][(fnCall'.op = "once" /\ onceResult # never) =>
              (fnOut'.ok /\ fnOut'.value = onceResult /\ fnOut'.calls = 0)]_vars

\* C19: a looped function whose body returns recur k times and then the
\* plain value v returns v when k <= max_iter, throws 'Too much recursion'
\* when k > max_iter, and calls its body at most max_iter + 1 times.
C19_MaxIterIterations ==
    fnCall.op = "loop" =>
        /\ fnCall.k <= fnCall.max_iter => (fnOut.ok /\ fnOut.value = fnCall.v)
        /\ fnCall.k > fnCall.max_iter =>
               (~fnOut.ok /\ fnOut.error = "Too much recursion")
        /\ fnOut.calls <= fnCall.max_iter + 1

\* the four parts of the dispatch on the number of arguments: the clause of
\* declared arity nargs, else the clause of the largest arity when nargs is
\* larger, all arguments passed, else an error; and an error for a
\* definition with two clauses of one arity
Largest(cl) == CHOOSE i \in 1..Len(cl) : \A j \in 1..Len(cl) : cl[j] <= cl[i]
Dispatches(cl, nargs, o) ==
    IF ~Distinct(cl) THEN ~o.ok /\ o.error = "one clause of a given arity"
    ELSE IF \E i \in 1..Len(cl) : cl[i] = nargs
         THEN o.ok /\ cl[o.clause] = nargs /\ o.value = Num(nargs)
    ELSE IF cl # <<>> /\ nargs > cl[Largest(cl)]
         THEN o.ok /\ o.clause = Largest(cl) /\ o.value = Num(nargs)
    ELSE ~o.ok /\ o.error = "Wrong number of arguments"

\* the earlier n_ary: the last clause of declared arity nargs, else an error
DispatchesExactly(cl, nargs, o) ==
    IF \E i \in 1..Len(cl) : cl[i] = nargs
    THEN /\ o.ok /\ cl[o.clause] = nargs /\ o.value = Num(nargs)
         /\ \A j \in 1..Len(cl) : cl[j] = nargs => j <= o.clause
    ELSE ~o.ok /\ o.error = "Wrong number of arguments"

\* C20 as claimed: every n_ary of the repository dispatches in the four
\* parts.
C20_ArityDispatch ==
    fnCall.op = "n_ary" => Dispatches(fnCall.clauses, fnCall.nargs, fnOut)

\* C20 as amended: the n_ary of the prelude dispatches in the four parts;
\* the earlier n_ary runs a clause only for its exact number of arguments,
\* the last one defined for that arity.
C20_ArityDispatchByVersion ==
    fnCall.op = "n_ary" =>
        IF fnCall.impl = "prelude"
        THEN Dispatches(fnCall.clauses, fnCall.nargs, fnOut)
        ELSE DispatchesExactly(fnCall.clauses, fnCall.nargs, fnOut)

\* the n_ary of the prelude, defined with clauses of arities 1 and 2 and
\* called with 3 arguments, has just run the clause of arity 2
C20_SurplusToLargest ==
    /\ fnCall.op = "n_ary" /\ fnCall.impl = "prelude"
    /\ fnCall.clauses = <<1, 2>> /\ fnCall.nargs = 3
    /\ fnOut.ok /\ fnOut.clause = 2 /\ fnOut.value = Num(3)

\* what a pipeline gives: every function applied in order, from the i-th on
RECURSIVE Threaded(_, _, _)
Threaded(fns, i, value) ==
    IF i > Len(fns) THEN value ELSE Threaded(fns, i + 1, Stage(fns[i], value))

\* C21: a pipeline of functions that do not throw applies every one of them
\* in order, for every input and also after an undefined intermediate
\* result, and returns what the last one returned.
C21_PipeAppliesAll ==
    (fnCall.op = "pipe" /\ \A i \in 1..Len(fnCall.fns) : ~StageThrows(fnCall.fns[i])) =>
        /\ fnOut.ok
        /\ fnOut.calls = Len(fnCall.fns)
        /\ fnOut.value = Threaded(fnCall.fns, 1, fnCall.v)

\* the keys of es go up strictly in the order of the strings
SortedByKey(es) == \A i, j \in 1..Len(es) : i < j => StrLess(es[i].k, es[j].k)

\* C22: every entry sequence handed to the graph of the Records is in the
\* lexicographic order of its keys, whatever the values are.
C22_SortedByKeyAlone == \A p \in nodes[RECORD_GRAPH] : SortedByKey(p)

\* a call of get_or_create along es whose final node holds a live composite:
\* that composite is returned, no composite and no node is created, the live
\* composites and the slots of the live paths are as before
HitFrame(kind, es) ==
    (es \in nodes[kind] /\ LiveTerminal(kind, es)) =>
        /\ result'.id = terminal[kind][es]
        /\ heap' = heap
        /\ alive' = alive
        /\ \A k \in Kinds :
               /\ nodes'[k] \subseteq nodes[k]
               /\ DOMAIN terminal'[k] \subseteq DOMAIN terminal[k]
               /\ \A q \in DOMAIN terminal[k] :
                      LiveTerminal(k, q) =>
                          (q \in DOMAIN terminal'[k] /\ terminal'[k][q] = terminal[k][q])

\* C23: a constructor call that reaches the graph with an entry sequence
\* whose final node holds a live composite returns that composite, creates
\* no composite and no trie node, and leaves the live composites and the
\* terminal slots of the live paths as they were.
C23_CanonicalizationHit ==
    [][/\ (result'.op = "Record" /\ result'.ok) =>
              \A value \in RecordArgs \cup {objectFromEntries(it) : it \in EntriesArgs} :
                  createRecordFromObject(value) =>
                      HitFrame(RECORD_GRAPH, Validated(SortEntries(value.fields)))
       /\ (result'.op = "Tuple" /\ result'.ok) =>
              \A values \in TupleArgs :
                  createTupleFromValues(values) =>
                      HitFrame(TUPLE_GRAPH, TupleEntries(values))]_vars

\* the first of two records has just been returned again: the call found it
\* in the terminal slot of its path
C23_ReturnedAgain ==
    /\ result.op = "Record" /\ result.ok /\ result.id = 1
    /\ Len(heap) = 2 /\ heap[2].kind = "rec"
    /\ heap[1].entries # <<>>
    /\ terminal["rec"][heap[1].entries] = 1

\* C24: a step detaches a node only when no terminal of its subtree holds a
\* live composite, and every live composite keeps all the nodes of its path
\* and the terminal slot at its end.
C24_PruningSafe ==
    /\ [][\A kind \in Kinds : \A p \in nodes[kind] \ nodes'[kind] :
              \A q \in nodes[kind] :
                  IsPrefix(p, q) =>
                      ~(q \in DOMAIN terminal[kind] /\ terminal[kind][q] \in alive)]_vars
    /\ [](\A c \in alive :
              /\ Prefixes(heap[c].entries) \subseteq nodes[heap[c].kind]
              /\ heap[c].entries \in DOMAIN terminal[heap[c].kind]
              /\ terminal[heap[c].kind][heap[c].entries] = c)

\* the path of a reclaimed composite has been detached below the node of a
\* live composite whose entries are a prefix of its entries
C24_PrunedBelowLive ==
    \E c \in Ids \ alive, d \in alive :
        /\ heap[c].kind = heap[d].kind
        /\ heap[d].entries # <<>>
        /\ IsPrefix(heap[d].entries, heap[c].entries)
        /\ heap[c].entries \notin nodes[heap[c].kind]
        /\ terminal[heap[d].kind][heap[d].entries] = d

\* C25: handed the same constructions, reference drops and collections, the
\* engine that prunes on traversal, the one that prunes in a deferred sweep
\* and the one that never prunes return the same instances at every step and
\* hold the same live terminals; they differ only in the nodes they keep.
C25_PolicyIndependence ==
    \A policy \in Policies :
        /\ engines[policy].result = result
        /\ \A kind \in Kinds :
               /\ \A p \in nodes[kind] \cup engines[policy].nodes[kind] :
                      /\ LiveTerminal(kind, p) <=> LiveSlot(engines[policy], kind, p)
                      /\ LiveTerminal(kind, p) =>
                             engines[policy].terminal[kind][p] = terminal[kind][p]
               /\ nodes[kind] \subseteq engines["never"].nodes[kind]
               /\ engines[policy].nodes[kind] \subseteq engines["never"].nodes[kind]

\* the three engines have just returned the same record in place of a
\* reclaimed one, and the two pruning engines keep fewer nodes than the one
\* that never prunes
C25_SameResultOtherFootprint ==
    /\ result.op = "Record" /\ result.ok
    /\ \A policy \in Policies : engines[policy].result = result
    /\ Ids \ alive # {}
    /\ nodes["rec"] # engines["never"].nodes["rec"]
    /\ engines["deferred"].nodes["rec"] # engines["never"].nodes["rec"]

RECURSIVE LastRegistered(_, _, _)
LastRegistered(log, i, value) ==
    IF i = 0 THEN "undefined"
    ELSE IF log[i].value = value THEN log[i].fn
    ELSE LastRegistered(log, i - 1, value)
RegisteredFor(value) == LastRegistered(registrations, Len(registrations), value)

\* C27: after any sequence of method and delete_method calls, a call of the
\* multimethod runs the function registered last for the value of its
\* dispatching function, or not_found (which raises unless one was given)
\* when there is none or it was deleted, and has_method tells exactly the
\* values that have a function.
C27_MultimethodDispatch ==
    /\ fnCall.op = "dispatch" =>
           IF RegisteredFor(on(fnCall.nargs)) # "undefined"
           THEN fnOut.ok /\ fnOut.calls = 1
                /\ fnOut.value = Method(RegisteredFor(on(fnCall.nargs)), fnCall.nargs)
           ELSE /\ fnOut.calls = 0
                /\ IF multimethod.not_found = "method_not_found"
                   THEN ~fnOut.ok /\ fnOut.error = "No method found"
                   ELSE fnOut.ok /\ fnOut.value = Num(0 - 1)
    /\ fnCall.op = "has_method" =>
           fnOut.value = Bool(RegisteredFor(fnCall.nargs) # "undefined")

\* a call has just run the function that replaced an earlier one for its
\* dispatch value, after another value's function was deleted
C27_ReplacedAndDeleted ==
    /\ fnCall.op = "dispatch" /\ fnCall.nargs = 3
    /\ registrations = <<Registered("method", 1, "plus10"),
                         Registered("method", 1, "plus20"),
                         Registered("delete_method", 0, "undefined")>>
    /\ fnOut.ok /\ fnOut.value = Num(23)

\* the elements of a source, up to the place where it throws
RECURSIVE Elements(_)
Elements(src) ==
    IF src = <<>> \/ Head(src) = Throws THEN <<>> ELSE <<Head(src)>> \o Elements(Tail(src))

\* C28: rest() of a seq gives the same on every call (first() reads the
\* constant current), every iteration over the seq has given a prefix of
\* the elements of the source, all of them when it is done, however the
\* iterations are interleaved, and the underlying iterator has been
\* advanced at most once per position and once more for the end.
C28_SeqsStateless ==
    /\ \A n \in 1..Len(seqs) : Cardinality(seqs[n].seen) <= 1
    /\ \A it \in 1..Len(iterations) :
           /\ IsPrefix(iterations[it].given, Elements(underlying.source))
           /\ iterations[it].state = "done" =>
                  iterations[it].given = Elements(underlying.source)
    /\ underlying.nexts <= Len(underlying.source) + 1

====
